---- MODULE Spec2Model ----
(***************************************************************************)
(* The marketplace request handlers (Hono app over a key-value store) as a *)
(* state machine.  The store is five key spaces (users:, user_products:,   *)
(* user_orders:, products:, orders:), each a partial function from the key *)
(* suffix to the stored JSON value.                                        *)
(*                                                                         *)
(* A handler that writes is a sequence of awaited store operations, and    *)
(* other requests run between them: one action is one awaited operation    *)
(* together with the handler code that runs when it resolves, up to the    *)
(* next await.  The arrival of a request (authentication, body parsing)    *)
(* changes nothing another request can see, so it is one step with the     *)
(* first operation.  A response that follows a write is a step of its own, *)
(* because other requests can run between the write and the return.        *)
(* A handler that only reads is one action: its reads are of a user record *)
(* (written once, never changed) and of one further key space, so every    *)
(* result it can return is the result of reading at one instant.           *)
(*                                                                         *)
(* Payload fields that no handler branches on (title, description, image,  *)
(* category, names, email, createdAt) are not carried in the records; the  *)
(* presence checks on them are inputs of the Start actions.                *)
(***************************************************************************)
EXTENDS Integers, Sequences, FiniteSets, Bags, TLC

\* ---------------------------------------------------------------- bounds
MaxProducts == 2
MaxOrders == 2
MaxFailures == 1
MaxRequests == 2
MaxConcurrent == 2
\* async calls of the App in flight at once
MaxCalls == 2

Users == {"u1", "u2"}
PIDs == 1..MaxProducts
OIDs == 1..MaxOrders

\* ------------------------------------------------------------ JSON values
Undef == [t |-> "undef"]
Null == [t |-> "null"]
Num(n) == [t |-> "num", n |-> n]
\* the JSON string whose text is the decimal numeral of n
Str(n) == [t |-> "str", n |-> n]

\* A presence check that takes every value but undefined and null for present.
Present(v) == v.t \notin {"undef", "null"}

\* JavaScript truthiness of a request field: undefined and 0 are falsy, every
\* non-empty string is truthy.
Truthy(v) == CASE v.t = "undef" -> FALSE
               [] v.t = "null" -> FALSE
               [] v.t = "num" -> v.n # 0
               [] v.t = "str" -> TRUE

\* parseFloat of a number or of a numeral string
ParseFloat(v) == v.n

RoleInputs == {"undef", "admin", "user", "moderator"}
PriceInputs == {Undef, Num(0), Str(0), Str(2), Num(-1)}
QtyInputs == {Undef, Num(0), Num(3), Num(-1)}

\* Request bodies.  A field that fails the handler's presence check makes the
\* other fields irrelevant, so one body stands for each such rejection.  A
\* handler reads the body only after authentication (lines 119-125, 236-242),
\* so an unauthenticated request is tried with that one body only.
SignupBodies ==
    {[valid |-> TRUE, role |-> role] : role \in RoleInputs}
        \cup {[valid |-> FALSE, role |-> "undef"]}
CreateBodies ==
    {[title |-> TRUE, price |-> price] : price \in PriceInputs}
        \cup {[title |-> FALSE, price |-> Str(0)]}
\* productId 0: the body has none
OrderBodies ==
    {[productId |-> id, quantity |-> quantity] : id \in PIDs, quantity \in QtyInputs}
        \cup {[productId |-> 0, quantity |-> Undef]}

VARIABLES identities, users, userProducts, userOrders, products, orders,
          nextPid, nextOid, req, resp, failures, started, signupRole, okOrders,
          currentView, accessToken, user, isLoading, calls

store == <<users, userProducts, userOrders, products, orders>>
\* the state of the client App: its four useState hooks and its async calls
\* in flight
app == <<currentView, accessToken, user, isLoading, calls>>
vars == <<identities, users, userProducts, userOrders, products, orders,
          nextPid, nextOid, req, resp, failures, started, signupRole, okOrders,
          currentView, accessToken, user, isLoading, calls>>

\* what no store operation and no provider call changes
ghost == <<signupRole, okOrders>>

\* ------------------------------------------------------------- requests
\* req is the bag of requests in flight, each a record of its handler's
\* position and locals; resp is the response being sent, Idle when none is.
Idle == [kind |-> "idle", pc |-> "idle", caller |-> "anon", pid |-> 0,
         oid |-> 0, ud |-> Null, prod |-> Null, ord |-> Null, list |-> <<>>,
         arg |-> Undef, status |-> 0, wrote |-> FALSE, body |-> Null]

InFlight == BagToSet(req)

\* No response is waiting to be sent.
NoResponse == resp = Idle

\* The request q in flight is at position pc of its handler.
At(q, pc) == NoResponse /\ q.pc = pc

NewReq(kind, caller) == [Idle EXCEPT !.kind = kind, !.caller = caller]

\* The handler returns c.json(body, status).
Respond(r, status, body) ==
    [r EXCEPT !.pc = "done", !.status = status, !.body = body]

ErrBody(msg) == [error |-> msg]

\* what each handler's catch says it was doing
CatchMessage(kind) ==
    CASE kind = "signup" -> "during signup"
      [] kind = "getUser" -> "while fetching user"
      [] kind = "listProducts" -> "while fetching products"
      [] kind = "createProduct" -> "while creating product"
      [] kind = "updateProduct" -> "while updating product"
      [] kind = "deleteProduct" -> "while deleting product"
      [] kind = "createOrder" -> "while creating order"
      [] kind = "myOrders" -> "while fetching orders"
      [] kind = "adminUsers" -> "while fetching users"
      [] kind = "adminOrders" -> "while fetching orders"

\* A catch that answers the failure with the handler's success body.
FailureSwallowed(r) == Respond(r, 200, [success |-> TRUE])

\* The handler's catch: c.json({ error: 'Internal server error ...' }, 500).
InternalError(r) == Respond(r, 500, ErrBody(CatchMessage(r.kind)))

\* The request q continues as r, or returns r.
Step(q, r) ==
    /\ IF r.pc = "done"
       THEN /\ req' = req (-) SetToBag({q})
            /\ resp' = r
       ELSE /\ req' = (req (-) SetToBag({q})) (+) SetToBag({r})
            /\ resp' = resp
    /\ UNCHANGED app

\* authenticateUser that only looks for a token and never asks the provider
TokenPresent(c) == c # "anon"

\* authenticateUser: the token is missing, or the provider knows no such user.
Authenticated(c) == c \in identities

\* kv.get(key) || [] on an index key space
GetList(space, u) == IF u \in DOMAIN space THEN space[u] ELSE <<>>

\* kv.get(key): the stored value or null
Get(space, k) == IF k \in DOMAIN space THEN space[k] ELSE Null

\* kv.set(key, value)
Put(space, k, v) == [x \in DOMAIN space \cup {k} |-> IF x = k THEN v ELSE space[x]]

\* kv.del(key)
Del(space, k) == [x \in DOMAIN space \ {k} |-> space[x]]

\* kv.getByPrefix(prefix): every value under the prefix
GetByPrefix(space) == {space[k] : k \in DOMAIN space}

\* Array.prototype.filter((id) => id !== x)
RECURSIVE Without(_, _)
Without(list, x) ==
    IF list = <<>> THEN <<>>
    ELSE IF Head(list) = x THEN Without(Tail(list), x)
         ELSE <<Head(list)>> \o Without(Tail(list), x)

Contains(list, x) == \E i \in 1..Len(list) : list[i] = x

\* The empty store of a fresh deployment.
InitEmpty ==
    /\ identities = {}
    /\ users = <<>>
    /\ userProducts = <<>>
    /\ userOrders = <<>>
    /\ products = <<>>
    /\ nextPid = 1
    /\ failures = 0
    /\ signupRole = <<>>

UserRecord(u, role) == [id |-> u, role |-> role]

\* The store after u1 signed up without a role and u2 as admin.
InitSignedUp ==
    /\ identities = Users
    /\ users = [u \in Users |-> UserRecord(u, IF u = "u2" THEN "admin" ELSE "user")]
    /\ userProducts = [u \in Users |-> <<>>]
    /\ userOrders = [u \in Users |-> <<>>]
    /\ products = <<>>
    /\ nextPid = 1
    /\ failures = 0
    /\ signupRole = [u \in Users |-> IF u = "u2" THEN "admin" ELSE "undef"]

\* The same after u1 listed a product at price 2.
InitListed ==
    /\ identities = Users
    /\ users = [u \in Users |-> UserRecord(u, IF u = "u2" THEN "admin" ELSE "user")]
    /\ userProducts = [u \in Users |-> IF u = "u1" THEN <<1>> ELSE <<>>]
    /\ userOrders = [u \in Users |-> <<>>]
    /\ products = [p \in {1} |-> [id |-> 1, price |-> 2, sellerId |-> "u1",
                                  status |-> "available"]]
    /\ nextPid = 2
    /\ failures = 0
    /\ signupRole = [u \in Users |-> IF u = "u2" THEN "admin" ELSE "undef"]

\* u1 signed up and listed a product; the signup of u2 created the identity and
\* failed at its first store write, so u2 has a token and no record.
InitNoRecord ==
    /\ identities = Users
    /\ users = [u \in {"u1"} |-> UserRecord(u, "user")]
    /\ userProducts = [u \in {"u1"} |-> <<1>>]
    /\ userOrders = [u \in {"u1"} |-> <<>>]
    /\ products = [p \in {1} |-> [id |-> 1, price |-> 2, sellerId |-> "u1",
                                  status |-> "available"]]
    /\ nextPid = 2
    /\ failures = 1
    /\ signupRole = [u \in Users |-> "undef"]

\* currentView: useState<'home' | 'login' | 'register' | 'dashboard' | 'admin'>
Views == {"home", "login", "register", "dashboard", "admin"}

\* The access tokens the identity provider hands to the client.
Tokens == {[jwt |-> t] : t \in {"t1", "t2"}}

\* An async function of the App in flight, suspended at the await pc.
Call(fn, pc, token) == [fn |-> fn, pc |-> pc, token |-> token]

\* The App after its first render: the four hooks hold their initial values
\* and the mount effect has called checkSession, which awaits getSession.
AppMounted ==
    /\ currentView = "home"
    /\ accessToken = Null
    /\ user = Null
    /\ isLoading = TRUE
    /\ calls = SetToBag({Call("checkSession", "getSession", Null)})

\* The program is checked from the empty store and from three states that
\* requests lead to from it, so that MaxRequests further requests reach the
\* races between purchases, listings and deletions.
Init ==
    /\ InitEmpty \/ InitSignedUp \/ InitListed \/ InitNoRecord
    /\ orders = <<>>
    /\ nextOid = 1
    /\ req = EmptyBag
    /\ resp = Idle
    /\ started = 0
    /\ okOrders = {}
    /\ AppMounted

\* A handler starts and runs to its second awaited store operation (r is the
\* request there, or the response when it has already returned).  started
\* counts the requests that got that far: MaxRequests bounds them, and leaves
\* free the requests answered at once, which leave no trace.
Begin(r) ==
    /\ NoResponse
    /\ BagCardinality(req) < MaxConcurrent
    /\ UNCHANGED app
    /\ IF r.pc = "done"
       THEN /\ resp' = r
            /\ UNCHANGED <<req, started>>
       ELSE /\ started < MaxRequests
            /\ started' = started + 1
            /\ req' = req (+) SetToBag({r})
            /\ resp' = resp

\* A request answered before its handler reads its inputs keeps none of them.
Unauthorized(r) ==
    Respond(NewReq(r.kind, r.caller), 401,
            ErrBody(IF r.caller = "anon" THEN "No access token provided"
                    ELSE "Invalid or expired token"))

BadRequest(r, msg) == Respond(NewReq(r.kind, r.caller), 400, ErrBody(msg))

\* A later step of a request: it touches neither the provider nor the id generator.
Frame == UNCHANGED <<identities, nextPid, nextOid, failures, started, signupRole>>

\* ----------------------------------------------------- POST /signup
\* role || 'user': the role is stored as the request gives it
RoleAsGiven(role) == IF role = "undef" THEN "user" ELSE role

\* role === 'admin' ? 'admin' : 'user'
UserRole(role) == IF role = "admin" THEN "admin" ELSE "user"

\* The body's required fields, then supabase.auth.admin.createUser: an error
\* (the email is taken) is a 400.
SignupStart(u, role, valid) ==
    LET r == [NewReq("signup", u) EXCEPT !.arg = [t |-> "role", role |-> role]] IN
    /\ IF ~valid
       THEN /\ Begin(BadRequest(r, "Email, password, and name are required"))
            /\ UNCHANGED <<identities, signupRole>>
       ELSE IF u \in identities
       THEN /\ Begin(BadRequest(r, "createUser"))
            /\ UNCHANGED <<identities, signupRole>>
       ELSE /\ Begin([r EXCEPT !.pc = "su_set_user"])
            /\ identities' = identities \cup {u}
            /\ signupRole' = Put(signupRole, u, role)
    /\ UNCHANGED <<store, nextPid, nextOid, failures, okOrders>>

SignupSetUser ==
    \E q \in InFlight :
    /\ At(q, "su_set_user")
    /\ LET r == q IN
       /\ users' = Put(users, r.caller, UserRecord(r.caller, UserRole(r.arg.role)))
       /\ Step(q, [r EXCEPT !.pc = "su_set_products", !.wrote = TRUE])
    /\ Frame
    /\ UNCHANGED <<userProducts, userOrders, products, orders, okOrders>>

SignupSetProducts ==
    \E q \in InFlight :
    /\ At(q, "su_set_products")
    /\ userProducts' = Put(userProducts, q.caller, <<>>)
    /\ Step(q, [q EXCEPT !.pc = "su_set_orders"])
    /\ Frame
    /\ UNCHANGED <<users, userOrders, products, orders, okOrders>>

SignupSetOrders ==
    \E q \in InFlight :
    /\ At(q, "su_set_orders")
    /\ userOrders' = Put(userOrders, q.caller, <<>>)
    /\ Step(q, [q EXCEPT !.pc = "su_respond"])
    /\ Frame
    /\ UNCHANGED <<users, userProducts, products, orders, okOrders>>

SignupRespond ==
    \E q \in InFlight :
    /\ At(q, "su_respond")
    /\ LET r == q IN
       Step(q, Respond(r, 200, UserRecord(r.caller, UserRole(r.arg.role))))
    /\ Frame
    /\ UNCHANGED <<store, okOrders>>

\* ----------------------------------------------------- read-only handlers
\* What a read-only handler leaves alone: everything but its own response.
ReadOnly == UNCHANGED <<identities, store, nextPid, nextOid, failures, ghost>>

\* GET /user
GetUser(c) ==
    LET r == NewReq("getUser", c)
        userData == Get(users, c)
    IN /\ Begin(IF ~Authenticated(c) THEN Unauthorized(r)
                ELSE IF userData = Null
                THEN Respond(r, 404, ErrBody("User data not found"))
                ELSE Respond(r, 200, userData))
       /\ ReadOnly

\* GET /products
ListProducts ==
    /\ Begin(Respond(NewReq("listProducts", "anon"), 200, GetByPrefix(products)))
    /\ ReadOnly

\* kv.mget: one slot per key, null for a key that has no record
Mget(space, keys) == [i \in 1..Len(keys) |-> Get(space, keys[i])]

\* GET /orders
MyOrders(c) ==
    LET r == NewReq("myOrders", c)
        orderIds == GetList(userOrders, c)
    IN /\ Begin(IF ~Authenticated(c) THEN Unauthorized(r)
                ELSE Respond([r EXCEPT !.list = orderIds], 200, Mget(orders, orderIds)))
       /\ ReadOnly

\* The listing handed to every authenticated caller that has a record.
AdminListToAll(r, space) ==
    LET userData == Get(users, r.caller) IN
    IF ~Authenticated(r.caller) THEN Unauthorized(r)
    ELSE IF userData = Null THEN InternalError(r)
    ELSE Respond([r EXCEPT !.ud = userData], 200, GetByPrefix(space))

\* kv.get(users:id) and the role check of the admin endpoints, then the scan;
\* userData.role of a missing record throws.
AdminList(r, space) ==
    LET userData == Get(users, r.caller) IN
    IF ~Authenticated(r.caller) THEN Unauthorized(r)
    ELSE IF userData = Null THEN InternalError(r)
    ELSE IF userData.role # "admin"
    THEN Respond([r EXCEPT !.ud = userData], 403, ErrBody("Admin access required"))
    ELSE Respond([r EXCEPT !.ud = userData], 200, GetByPrefix(space))

\* GET /admin/users
AdminUsers(c) ==
    /\ Begin(AdminList(NewReq("adminUsers", c), users))
    /\ ReadOnly

\* GET /admin/orders
AdminOrders(c) ==
    /\ Begin(AdminList(NewReq("adminOrders", c), orders))
    /\ ReadOnly

\* ----------------------------------------------------- POST /products
NewProduct(id, price, seller) ==
    [id |-> id, price |-> ParseFloat(price), sellerId |-> seller, status |-> "available"]

\* the handler that names the seller 'Unknown' when the caller has no user record
CreateStartUnknownSeller(c, hasTitle, price) ==
    LET body == [title |-> hasTitle, price |-> price]
        r == NewReq("createProduct", c)
        userData == Get(users, c)
        go == Authenticated(c) /\ hasTitle /\ Truthy(price)
    IN /\ Authenticated(c) \/ ~hasTitle
       /\ go => nextPid <= MaxProducts
       /\ Begin(IF ~Authenticated(c) THEN Unauthorized(r)
                ELSE IF ~hasTitle \/ ~Truthy(price)
                THEN [BadRequest(r, "Title and price are required")
                          EXCEPT !.arg = body]
                ELSE [r EXCEPT !.ud = userData, !.pid = nextPid, !.arg = body,
                               !.prod = NewProduct(nextPid, price, c),
                               !.pc = "cp_set_product"])
       /\ nextPid' = IF go THEN nextPid + 1 ELSE nextPid
       /\ UNCHANGED <<identities, store, nextOid, failures, ghost>>

\* Authentication, the body's required fields, kv.get(users:id), then generateId
\* and the product object; userData.name of a missing record throws.  arg is
\* the body the handler parsed.
CreateStart(c, hasTitle, price) ==
    LET body == [title |-> hasTitle, price |-> price]
        r == NewReq("createProduct", c)
        userData == Get(users, c)
        go == Authenticated(c) /\ hasTitle /\ Truthy(price) /\ userData # Null
    IN /\ Authenticated(c) \/ ~hasTitle
       /\ go => nextPid <= MaxProducts
       /\ Begin(IF ~Authenticated(c) THEN Unauthorized(r)
                ELSE IF ~hasTitle \/ ~Truthy(price)
                THEN [BadRequest(r, "Title and price are required")
                          EXCEPT !.arg = body]
                ELSE IF userData = Null
                THEN InternalError(NewReq(r.kind, c))
                ELSE [r EXCEPT !.ud = userData, !.pid = nextPid, !.arg = body,
                               !.prod = NewProduct(nextPid, price, c),
                               !.pc = "cp_set_product"])
       /\ nextPid' = IF go THEN nextPid + 1 ELSE nextPid
       /\ UNCHANGED <<identities, store, nextOid, failures, ghost>>

CreateSetProduct ==
    \E q \in InFlight :
    /\ At(q, "cp_set_product")
    /\ LET r == q IN
       /\ products' = Put(products, r.pid, r.prod)
       /\ Step(q, [r EXCEPT !.pc = "cp_get_index", !.wrote = TRUE])
    /\ Frame
    /\ UNCHANGED <<users, userProducts, userOrders, orders, okOrders>>

CreateGetIndex ==
    \E q \in InFlight :
    /\ At(q, "cp_get_index")
    /\ LET r == q IN
       Step(q, [r EXCEPT !.list = GetList(userProducts, r.caller),
                               !.pc = "cp_set_index"])
    /\ Frame
    /\ UNCHANGED <<store, okOrders>>

\* userProducts.push(productId), then kv.set
CreateSetIndex ==
    \E q \in InFlight :
    /\ At(q, "cp_set_index")
    /\ LET r == q IN
       /\ userProducts' = Put(userProducts, r.caller, Append(r.list, r.pid))
       /\ Step(q, [r EXCEPT !.list = <<>>, !.pc = "cp_respond"])
    /\ Frame
    /\ UNCHANGED <<users, userOrders, products, orders, okOrders>>

CreateRespond ==
    \E q \in InFlight :
    /\ At(q, "cp_respond")
    /\ Step(q, Respond(q, 200, q.prod))
    /\ Frame
    /\ UNCHANGED <<store, okOrders>>

\* ----------------------------------------------------- PUT /products/:id
\* Request bodies of an update: partial product records.
UpdateBodies ==
    {[id |-> 0, price |-> 0, status |-> "sold"]} \cup {[sellerId |-> u] : u \in Users}

\* { ...product, ...updates }: the body's id overwrites the record's
MergeBodyLast(product, updates, productId) ==
    [f \in DOMAIN product \cup DOMAIN updates |->
        IF f \in DOMAIN updates THEN updates[f] ELSE product[f]]

\* { ...product, ...updates, id: productId }
Merge(product, updates, productId) ==
    [f \in DOMAIN product \cup DOMAIN updates |->
        IF f = "id" THEN productId
        ELSE IF f \in DOMAIN updates THEN updates[f] ELSE product[f]]

\* product.sellerId !== user.id && userData.role === 'admin'
AdminsNotAuthorized(product, caller, userData) ==
    product.sellerId # caller /\ userData.role = "admin"

\* product.sellerId !== user.id && userData.role !== 'admin'
NotAuthorized(product, caller, userData) ==
    product.sellerId # caller /\ userData.role # "admin"

\* The check that lets every caller with a user record through.
AuthorizeAnyone(product, caller, userData) ==
    IF product.sellerId # caller /\ userData = Null THEN "throw" ELSE "go"

\* The owner-or-admin check of update and delete on the records the handler
\* read: "go" (authorized), "forbidden" (403), or "throw" (userData is null and
\* its role is read).
Authorize(product, caller, userData) ==
    IF product.sellerId # caller /\ userData = Null THEN "throw"
    ELSE IF NotAuthorized(product, caller, userData) THEN "forbidden"
    ELSE "go"

\* Authentication and kv.get(products:id) of update and delete.
FetchProduct(r, next) ==
    LET product == Get(products, r.pid) IN
    IF ~Authenticated(r.caller) THEN Unauthorized(r)
    ELSE IF product = Null THEN Respond(r, 404, ErrBody("Product not found"))
    ELSE [r EXCEPT !.prod = product, !.pc = next]

\* the check written userData?.role: a caller without user record is refused
\* like any caller who is not an admin
CheckOwnerOptional(r0, next, what) ==
    LET userData == Get(users, r0.caller)
        r == [r0 EXCEPT !.ud = userData]
    IN IF r.prod.sellerId = r.caller THEN [r EXCEPT !.pc = next]
       ELSE IF userData = Null \/ userData.role # "admin"
       THEN Respond(r, 403, ErrBody(what))
       ELSE [r EXCEPT !.pc = next]

\* kv.get(users:id) and the owner-or-admin check of update and delete.
CheckOwner(r0, next, what) ==
    LET userData == Get(users, r0.caller)
        r == [r0 EXCEPT !.ud = userData]
        verdict == Authorize(r.prod, r.caller, userData)
    IN CASE verdict = "throw" ->
              InternalError(r)
         [] verdict = "forbidden" ->
              Respond(r, 403, ErrBody(what))
         [] verdict = "go" -> [r EXCEPT !.pc = next]

UpdateStart(c, id) ==
    /\ Begin(FetchProduct([NewReq("updateProduct", c) EXCEPT !.pid = id], "up_get_user"))
    /\ ReadOnly

UpdateGetUser ==
    \E q \in InFlight :
    /\ At(q, "up_get_user")
    /\ Step(q, CheckOwner(q, "up_set_product",
                                "Not authorized to update this product"))
    /\ Frame
    /\ UNCHANGED <<store, okOrders>>

\* the handler that also lists the product under the sellerId it stores
UpdateSetProductListed ==
    \E q \in InFlight, updates \in UpdateBodies :
    /\ At(q, "up_set_product")
    /\ LET r == q
           updatedProduct == Merge(r.prod, updates, r.pid)
           seller == updatedProduct.sellerId
       IN /\ products' = Put(products, r.pid, updatedProduct)
          /\ userProducts' = Put(userProducts, seller,
                                 Append(GetList(userProducts, seller), r.pid))
          /\ Step(q, [r EXCEPT !.arg = [t |-> "updated", product |-> updatedProduct],
                                     !.wrote = TRUE, !.pc = "up_respond"])
    /\ Frame
    /\ UNCHANGED <<users, userOrders, orders, okOrders>>

\* c.req.json(), the merge, kv.set
UpdateSetProduct ==
    \E q \in InFlight, updates \in UpdateBodies :
    /\ At(q, "up_set_product")
    /\ LET r == q
           updatedProduct == Merge(r.prod, updates, r.pid)
       IN /\ products' = Put(products, r.pid, updatedProduct)
          /\ Step(q, [r EXCEPT !.arg = [t |-> "updated", product |-> updatedProduct],
                                     !.wrote = TRUE, !.pc = "up_respond"])
    /\ Frame
    /\ UNCHANGED <<users, userProducts, userOrders, orders, okOrders>>

UpdateRespond ==
    \E q \in InFlight :
    /\ At(q, "up_respond")
    /\ Step(q, Respond(q, 200, q.arg.product))
    /\ Frame
    /\ UNCHANGED <<store, okOrders>>

\* ----------------------------------------------------- DELETE /products/:id
DeleteStart(c, id) ==
    /\ Begin(FetchProduct([NewReq("deleteProduct", c) EXCEPT !.pid = id], "dl_get_user"))
    /\ ReadOnly

DeleteGetUser ==
    \E q \in InFlight :
    /\ At(q, "dl_get_user")
    /\ Step(q, CheckOwner(q, "dl_del_product",
                                "Not authorized to delete this product"))
    /\ Frame
    /\ UNCHANGED <<store, okOrders>>

DeleteDelProduct ==
    \E q \in InFlight :
    /\ At(q, "dl_del_product")
    /\ products' = Del(products, q.pid)
    /\ Step(q, [q EXCEPT !.wrote = TRUE, !.pc = "dl_get_index"])
    /\ Frame
    /\ UNCHANGED <<users, userProducts, userOrders, orders, okOrders>>

DeleteGetIndex ==
    \E q \in InFlight :
    /\ At(q, "dl_get_index")
    /\ LET r == q IN
       Step(q, [r EXCEPT !.list = GetList(userProducts, r.prod.sellerId),
                               !.pc = "dl_set_index"])
    /\ Frame
    /\ UNCHANGED <<store, okOrders>>

\* the handler that removes the id from the list of every user
DeleteFromEveryIndex ==
    \E q \in InFlight :
    /\ At(q, "dl_set_index")
    /\ LET r == q IN
       /\ userProducts' =
              [u \in DOMAIN userProducts \cup {r.prod.sellerId} |->
                  Without(GetList(userProducts, u), r.pid)]
       /\ Step(q, [r EXCEPT !.list = <<>>, !.pc = "dl_respond"])
    /\ Frame
    /\ UNCHANGED <<users, userOrders, products, orders, okOrders>>

\* userProducts.filter((id) => id !== productId), then kv.set
DeleteSetIndex ==
    \E q \in InFlight :
    /\ At(q, "dl_set_index")
    /\ LET r == q IN
       /\ userProducts' = Put(userProducts, r.prod.sellerId, Without(r.list, r.pid))
       /\ Step(q, [r EXCEPT !.list = <<>>, !.pc = "dl_respond"])
    /\ Frame
    /\ UNCHANGED <<users, userOrders, products, orders, okOrders>>

DeleteRespond ==
    \E q \in InFlight :
    /\ At(q, "dl_respond")
    /\ Step(q, Respond(q, 200, [success |-> TRUE]))
    /\ Frame
    /\ UNCHANGED <<store, okOrders>>

\* ----------------------------------------------------- POST /orders
\* quantity || 1
Qty(quantity) == IF Truthy(quantity) THEN quantity.n ELSE 1

\* product.price * qty
TotalPrice(price, qty) == price * qty

NewOrder(id, product, productId, buyer, qty) ==
    [id |-> id, productId |-> productId, buyerId |-> buyer,
     sellerId |-> product.sellerId, price |-> product.price, quantity |-> qty,
     totalPrice |-> TotalPrice(product.price, qty), status |-> "completed"]

\* generateId that returns the same id every time
FirstOrderId == CHOOSE o \in OIDs : \A p \in OIDs : o <= p

\* generateId: an id no order has
FreshOrderId == nextOid

\* The check that takes a sold product for available.
SoldIsAvailable(product) == product.status \notin {"available", "sold"}

\* product.status !== 'available'
NotAvailable(product) == product.status # "available"

\* Authentication, the body's productId, kv.get(products:id) and the two
\* rejections, then generateId.  The request keeps qty, which line 260 computes
\* from the body alone.
OrderStart(c, productId, quantity) ==
    LET r == [NewReq("createOrder", c) EXCEPT !.pid = productId]
        product == Get(products, productId)
        go == /\ Authenticated(c)
              /\ productId # 0
              /\ product # Null
              /\ ~NotAvailable(product)
    IN /\ Authenticated(c) \/ productId = 0
       /\ go => nextOid <= MaxOrders
       /\ Begin(IF ~Authenticated(c) THEN Unauthorized(r)
                ELSE IF productId = 0
                THEN BadRequest(r, "Product ID is required")
                ELSE IF product = Null
                THEN Respond(r, 404, ErrBody("Product not found"))
                ELSE IF NotAvailable(product)
                THEN Respond([r EXCEPT !.prod = product], 400,
                             ErrBody("Product is not available"))
                ELSE [r EXCEPT !.prod = product, !.oid = FreshOrderId,
                               !.arg = Num(Qty(quantity)), !.pc = "or_get_user"])
       /\ nextOid' = IF go THEN nextOid + 1 ELSE nextOid
       /\ UNCHANGED <<identities, store, nextPid, failures, ghost>>

\* the handler that looks the product up again before it builds the order
OrderGetUserRecheck ==
    \E q \in InFlight :
    /\ At(q, "or_get_user")
    /\ LET r0 == q
           userData == Get(users, r0.caller)
           r == [r0 EXCEPT !.ud = userData]
       IN Step(q,
              IF Get(products, r.pid) = Null
              THEN Respond(r, 404, ErrBody("Product not found"))
              ELSE IF userData = Null
              THEN InternalError(r)
              ELSE [r EXCEPT !.ord = NewOrder(r.oid, r.prod, r.pid, r.caller, r.arg.n),
                             !.pc = "or_set_order"])
    /\ Frame
    /\ UNCHANGED <<store, okOrders>>

\* kv.get(users:id), then the order object; userData.name of a missing record
\* throws.
OrderGetUser ==
    \E q \in InFlight :
    /\ At(q, "or_get_user")
    /\ LET r0 == q
           userData == Get(users, r0.caller)
           r == [r0 EXCEPT !.ud = userData]
       IN Step(q,
              IF userData = Null
              THEN InternalError(r)
              ELSE [r EXCEPT !.ord = NewOrder(r.oid, r.prod, r.pid, r.caller, r.arg.n),
                             !.pc = "or_set_order"])
    /\ Frame
    /\ UNCHANGED <<store, okOrders>>

\* the handler without line 278: the order is indexed and never stored
OrderNotStored ==
    \E q \in InFlight :
    /\ At(q, "or_set_order")
    /\ Step(q, [q EXCEPT !.wrote = TRUE, !.pc = "or_get_buyer"])
    /\ Frame
    /\ UNCHANGED <<store, okOrders>>

OrderSetOrder ==
    \E q \in InFlight :
    /\ At(q, "or_set_order")
    /\ orders' = Put(orders, q.oid, q.ord)
    /\ Step(q, [q EXCEPT !.wrote = TRUE, !.pc = "or_get_buyer"])
    /\ Frame
    /\ UNCHANGED <<users, userProducts, userOrders, products, okOrders>>

OrderGetBuyer ==
    \E q \in InFlight :
    /\ At(q, "or_get_buyer")
    /\ LET r == q IN
       Step(q, [r EXCEPT !.list = GetList(userOrders, r.caller),
                               !.pc = "or_set_buyer"])
    /\ Frame
    /\ UNCHANGED <<store, okOrders>>

\* the append as one indivisible operation on the list the store holds
OrderAppendBuyer ==
    \E q \in InFlight :
    /\ At(q, "or_set_buyer")
    /\ LET r == q IN
       /\ userOrders' = Put(userOrders, r.caller,
                            Append(GetList(userOrders, r.caller), r.oid))
       /\ Step(q, [r EXCEPT !.list = <<>>, !.pc = "or_get_seller"])
    /\ Frame
    /\ UNCHANGED <<users, userProducts, products, orders, okOrders>>

\* buyerOrders.push(orderId), then kv.set
OrderSetBuyer ==
    \E q \in InFlight :
    /\ At(q, "or_set_buyer")
    /\ LET r == q IN
       /\ userOrders' = Put(userOrders, r.caller, Append(r.list, r.oid))
       /\ Step(q, [r EXCEPT !.list = <<>>, !.pc = "or_get_seller"])
    /\ Frame
    /\ UNCHANGED <<users, userProducts, products, orders, okOrders>>

OrderGetSeller ==
    \E q \in InFlight :
    /\ At(q, "or_get_seller")
    /\ LET r == q IN
       Step(q, [r EXCEPT !.list = GetList(userOrders, r.prod.sellerId),
                               !.pc = "or_set_seller"])
    /\ Frame
    /\ UNCHANGED <<store, okOrders>>

\* the order filed under the seller the product record names at that moment
OrderSetCurrentSeller ==
    \E q \in InFlight :
    /\ At(q, "or_set_seller")
    /\ LET r == q
           current == Get(products, r.pid)
           seller == IF current = Null THEN r.prod.sellerId ELSE current.sellerId
       IN
       /\ userOrders' = Put(userOrders, seller, Append(r.list, r.oid))
       /\ Step(q, [r EXCEPT !.list = <<>>, !.pc = "or_respond"])
    /\ Frame
    /\ UNCHANGED <<users, userProducts, products, orders, okOrders>>

\* sellerOrders.push(orderId), then kv.set
OrderSetSeller ==
    \E q \in InFlight :
    /\ At(q, "or_set_seller")
    /\ LET r == q IN
       /\ userOrders' = Put(userOrders, r.prod.sellerId, Append(r.list, r.oid))
       /\ Step(q, [r EXCEPT !.list = <<>>, !.pc = "or_respond"])
    /\ Frame
    /\ UNCHANGED <<users, userProducts, products, orders, okOrders>>

\* the handler that marks the product sold before it returns
OrderRespondSold ==
    \E q \in InFlight :
    /\ At(q, "or_respond")
    /\ Step(q, Respond(q, 200, q.ord))
    /\ okOrders' = okOrders \cup {q.oid}
    /\ products' = IF q.pid \in DOMAIN products
                   THEN Put(products, q.pid, [products[q.pid] EXCEPT !.status = "sold"])
                   ELSE products
    /\ Frame
    /\ UNCHANGED <<users, userProducts, userOrders, orders>>

\* okOrders records the orders whose purchase has returned success.
OrderRespond ==
    \E q \in InFlight :
    /\ At(q, "or_respond")
    /\ Step(q, Respond(q, 200, q.ord))
    /\ okOrders' = okOrders \cup {q.oid}
    /\ Frame
    /\ UNCHANGED store

\* ----------------------------------------------------- store failures
\* The positions at which the next thing the handler awaits is a store operation.
StorePcs ==
    {"su_set_user", "su_set_products", "su_set_orders",
     "cp_set_product", "cp_get_index", "cp_set_index",
     "up_get_user", "up_set_product",
     "dl_get_user", "dl_del_product", "dl_get_index", "dl_set_index",
     "or_get_user", "or_set_order", "or_get_buyer", "or_set_buyer",
     "or_get_seller", "or_set_seller"}

\* The handlers whose first awaited operation after authentication is a store
\* operation.
StoreKinds ==
    {"getUser", "createProduct", "updateProduct", "deleteProduct", "createOrder",
     "myOrders", "adminUsers", "adminOrders"}

\* a catch that undoes the product write of a creation that fails later
StoreFailureRollsBack ==
    \E q \in InFlight :
    /\ NoResponse
    /\ q.pc \in StorePcs
    /\ failures < MaxFailures
    /\ failures' = failures + 1
    /\ Step(q, InternalError(q))
    /\ products' = IF q.kind = "createProduct" /\ q.wrote
                   THEN Del(products, q.pid) ELSE products
    /\ UNCHANGED <<identities, users, userProducts, userOrders, orders,
                   nextPid, nextOid, started, ghost>>

\* The awaited store operation throws without taking effect; the handler's
\* catch answers 500.
StoreFailure ==
    \E q \in InFlight :
    /\ NoResponse
    /\ q.pc \in StorePcs
    /\ failures < MaxFailures
    /\ failures' = failures + 1
    /\ Step(q, InternalError(q))
    /\ UNCHANGED <<identities, store, nextPid, nextOid, started, ghost>>

\* The same for the first store operation of an authenticated request (for
\* GET /products, of any request).
FirstStoreFailure(kind, c) ==
    /\ Authenticated(c) \/ kind = "listProducts"
    /\ failures < MaxFailures
    /\ failures' = failures + 1
    /\ Begin(InternalError(NewReq(kind, c)))
    /\ UNCHANGED <<identities, store, nextPid, nextOid, ghost>>

\* A request body that is not JSON: c.req.json() throws.
Malformed == [t |-> "malformed"]

\* The handlers that parse the body before their first store operation: signup
\* first of all (line 37), the other two after authentication (lines 125, 242).
ParseKinds == {"signup", "createProduct", "createOrder"}

\* c.req.json() throws on a malformed body; the handler's catch answers 500.
\* arg is the body the handler tried to parse.
ParseFailure(kind, c) ==
    /\ IF kind = "signup" THEN c = "anon" ELSE Authenticated(c)
    /\ Begin(InternalError([NewReq(kind, c) EXCEPT !.arg = Malformed]))
    /\ UNCHANGED <<identities, store, nextPid, nextOid, failures, ghost>>

\* PUT parses the body after the owner-or-admin check (line 184), before its
\* write.
UpdateParseFailure ==
    \E q \in InFlight :
    /\ At(q, "up_set_product")
    /\ Step(q, InternalError([q EXCEPT !.arg = Malformed]))
    /\ Frame
    /\ UNCHANGED <<store, okOrders>>

\* The response is sent.  A response is looked at in the state its handler
\* returned it in: it is sent before any handler takes its next step.
Deliver ==
    /\ resp.pc = "done"
    /\ resp' = Idle
    /\ UNCHANGED <<req, identities, store, nextPid, nextOid, failures, started, ghost>>
    /\ UNCHANGED app

Callers == Users \cup {"anon"}

Next ==
    \/ \E u \in Users, body \in SignupBodies :
           SignupStart(u, body.role, body.valid)
    \/ SignupSetUser
    \/ SignupSetProducts
    \/ SignupSetOrders
    \/ SignupRespond
    \/ \E c \in Callers : GetUser(c)
    \/ ListProducts
    \/ \E c \in Callers : MyOrders(c)
    \/ \E c \in Callers : AdminUsers(c)
    \/ \E c \in Callers : AdminOrders(c)
    \/ \E c \in Callers, body \in CreateBodies :
           CreateStart(c, body.title, body.price)
    \/ CreateSetProduct
    \/ CreateGetIndex
    \/ CreateSetIndex
    \/ CreateRespond
    \/ \E c \in Callers, id \in PIDs : UpdateStart(c, id)
    \/ UpdateGetUser
    \/ UpdateSetProduct
    \/ UpdateRespond
    \/ \E c \in Callers, id \in PIDs : DeleteStart(c, id)
    \/ DeleteGetUser
    \/ DeleteDelProduct
    \/ DeleteGetIndex
    \/ DeleteSetIndex
    \/ DeleteRespond
    \/ \E c \in Callers, body \in OrderBodies :
           OrderStart(c, body.productId, body.quantity)
    \/ OrderGetUser
    \/ OrderSetOrder
    \/ OrderGetBuyer
    \/ OrderSetBuyer
    \/ OrderGetSeller
    \/ OrderSetSeller
    \/ OrderRespond
    \/ StoreFailure
    \/ \E kind \in StoreKinds \cup {"listProducts"}, c \in Callers :
           FirstStoreFailure(kind, c)
    \/ \E kind \in ParseKinds, c \in Callers : ParseFailure(kind, c)
    \/ UpdateParseFailure
    \/ Deliver

Spec == Init /\ [][Next]_vars
\* ------------------------------------------------- one request at a time
\* The program with no two requests overlapping and no store operation
\* failing: a request starts only when none is in flight.
SeqNext ==
    \/ \E u \in Users, body \in SignupBodies :
           req = EmptyBag /\ SignupStart(u, body.role, body.valid)
    \/ SignupSetUser
    \/ SignupSetProducts
    \/ SignupSetOrders
    \/ SignupRespond
    \/ \E c \in Callers : req = EmptyBag /\ GetUser(c)
    \/ req = EmptyBag /\ ListProducts
    \/ \E c \in Callers : req = EmptyBag /\ MyOrders(c)
    \/ \E c \in Callers : req = EmptyBag /\ AdminUsers(c)
    \/ \E c \in Callers : req = EmptyBag /\ AdminOrders(c)
    \/ \E c \in Callers, body \in CreateBodies :
           req = EmptyBag /\ CreateStart(c, body.title, body.price)
    \/ CreateSetProduct
    \/ CreateGetIndex
    \/ CreateSetIndex
    \/ CreateRespond
    \/ \E c \in Callers, id \in PIDs : req = EmptyBag /\ UpdateStart(c, id)
    \/ UpdateGetUser
    \/ UpdateSetProduct
    \/ UpdateRespond
    \/ \E c \in Callers, id \in PIDs : req = EmptyBag /\ DeleteStart(c, id)
    \/ DeleteGetUser
    \/ DeleteDelProduct
    \/ DeleteGetIndex
    \/ DeleteSetIndex
    \/ DeleteRespond
    \/ \E c \in Callers, body \in OrderBodies :
           req = EmptyBag /\ OrderStart(c, body.productId, body.quantity)
    \/ OrderGetUser
    \/ OrderSetOrder
    \/ OrderGetBuyer
    \/ OrderSetBuyer
    \/ OrderGetSeller
    \/ OrderSetSeller
    \/ OrderRespond
    \/ \E kind \in ParseKinds, c \in Callers :
           req = EmptyBag /\ ParseFailure(kind, c)
    \/ UpdateParseFailure
    \/ Deliver

SpecSeq == Init /\ [][SeqNext]_vars

\* ------------------------------------------------------------ the client App
\* what no step of the App changes
server == <<identities, store, nextPid, nextOid, req, resp, failures, started, ghost>>

CallsInFlight == BagToSet(calls)

\* The async call q returns.
Return(q) == calls' = calls (-) SetToBag({q})

\* The async call q goes on to its next await as r.
Await(q, r) == calls' = (calls (-) SetToBag({q})) (+) SetToBag({r})

\* finally { setIsLoading(false) }: only checkSession has it.
Finally(q) == isLoading' = IF q.fn = "checkSession" THEN FALSE ELSE isLoading

\* The loading screen is all that is rendered while isLoading holds.
Interactive == ~isLoading

\* role: user.app_metadata?.role || 'user'
AppRoles == {"user", "admin", "moderator"}

\* checkSession: getSession returns a session; setAccessToken, then
\* fetchUserData awaits getUser.
CheckSessionFound ==
    \E q \in CallsInFlight, t \in Tokens :
    /\ q.fn = "checkSession" /\ q.pc = "getSession"
    /\ accessToken' = t
    /\ Await(q, Call("checkSession", "getUser", t))
    /\ UNCHANGED <<currentView, user, isLoading, server>>

\* checkSession: getSession returns no session, or throws; finally.
CheckSessionNone ==
    \E q \in CallsInFlight :
    /\ q.fn = "checkSession" /\ q.pc = "getSession"
    /\ Finally(q)
    /\ Return(q)
    /\ UNCHANGED <<currentView, accessToken, user, server>>

\* fetchUserData: getUser returns the user; setUser, and the view set last is
\* 'home' whatever the role.
FetchUserDataSucceeds ==
    \E q \in CallsInFlight, role \in AppRoles :
    /\ q.pc = "getUser"
    /\ user' = [id |-> q.token, role |-> role]
    /\ currentView' = "home"
    /\ Finally(q)
    /\ Return(q)
    /\ UNCHANGED <<accessToken, server>>

\* fetchUserData: getUser returns an error or no user; the catch clears user
\* and token, shows the login view and rethrows to a caller that only logs.
FetchUserDataFails ==
    \E q \in CallsInFlight :
    /\ q.pc = "getUser"
    /\ user' = Null
    /\ accessToken' = Null
    /\ currentView' = "login"
    /\ Finally(q)
    /\ Return(q)
    /\ UNCHANGED server

\* handleLoginSuccess, the onSuccess of the Login view: setAccessToken, then
\* fetchUserData awaits getUser.
HandleLoginSuccess(token) ==
    /\ Interactive
    /\ currentView = "login"
    /\ BagCardinality(calls) < MaxCalls
    /\ accessToken' = token
    /\ calls' = calls (+) SetToBag({Call("handleLoginSuccess", "getUser", token)})
    /\ UNCHANGED <<currentView, user, isLoading, server>>

\* handleLogout, the onClick of the button shown when user is set: awaits
\* signOut.
HandleLogout ==
    /\ Interactive
    /\ user # Null
    /\ BagCardinality(calls) < MaxCalls
    /\ calls' = calls (+) SetToBag({Call("handleLogout", "signOut", Null)})
    /\ UNCHANGED <<currentView, accessToken, user, isLoading, server>>

\* handleLogout after signOut: token and user cleared, view 'home'.
LogoutDone ==
    \E q \in CallsInFlight :
    /\ q.pc = "signOut"
    /\ accessToken' = Null
    /\ user' = Null
    /\ currentView' = "home"
    /\ Return(q)
    /\ UNCHANGED <<isLoading, server>>

\* signOut throws: the catch logs and nothing is set.
LogoutFails ==
    \E q \in CallsInFlight :
    /\ q.pc = "signOut"
    /\ Return(q)
    /\ UNCHANGED <<currentView, accessToken, user, isLoading, server>>

\* The views a click can show: the navigation bar's buttons, the links of the
\* Login and Register views, and the product list's onLoginRequired, called
\* when a purchase is tried without a token.
CanShow(view) ==
    CASE view = "home" -> TRUE
      [] view = "dashboard" -> user # Null /\ user.role = "user"
      [] view = "admin" -> user # Null /\ user.role = "admin"
      [] view = "login" -> \/ user = Null
                           \/ currentView = "register"
                           \/ currentView = "home" /\ accessToken = Null
      [] view = "register" -> user = Null \/ currentView = "login"

Show(view) ==
    /\ Interactive
    /\ CanShow(view)
    /\ currentView # view
    /\ currentView' = view
    /\ UNCHANGED <<accessToken, user, isLoading, calls, server>>

\* <UserDashboard accessToken={accessToken!} /> is rendered.
UserDashboardShown ==
    Interactive /\ currentView = "dashboard" /\ user # Null /\ user.role = "user"

\* <AdminDashboard accessToken={accessToken!} /> is rendered.
AdminDashboardShown ==
    Interactive /\ currentView = "admin" /\ user # Null /\ user.role = "admin"

NextApp ==
    \/ CheckSessionFound
    \/ CheckSessionNone
    \/ FetchUserDataSucceeds
    \/ FetchUserDataFails
    \/ \E t \in Tokens : HandleLoginSuccess(t)
    \/ HandleLogout
    \/ LogoutDone
    \/ LogoutFails
    \/ \E view \in Views : Show(view)

\* The App over a store nobody calls.
InitApp == Init /\ identities = {}

SpecApp == InitApp /\ [][NextApp]_vars

\* ================================================================ claims
\* The requests in flight together with the response being sent.
Requests == InFlight \cup {resp}

\* The response being sent answers a request of this kind with this status.
Answered(kind, status) ==
    resp.pc = "done" /\ resp.kind = kind /\ resp.status = status

\* C1: whenever POST /orders returns success, the new order's id is in
\* user_orders of the buyer and in user_orders of the product's seller when the
\* response is returned, and the stored order has totalPrice = price * quantity
\* (quantity 1 when the request gives none).
C1_PurchaseIndexed ==
    Answered("createOrder", 200) =>
        /\ Contains(GetList(userOrders, resp.caller), resp.oid)
        /\ Contains(GetList(userOrders, resp.prod.sellerId), resp.oid)
        /\ resp.oid \in DOMAIN orders
        /\ orders[resp.oid].totalPrice = resp.prod.price * orders[resp.oid].quantity

\* C2: whenever POST /products by U returns success, user_products of U
\* contains the new id and the products record exists when the response is
\* returned, so GET /products returns the product.
C2_CreateIndexed ==
    Answered("createProduct", 200) =>
        /\ Contains(GetList(userProducts, resp.caller), resp.pid)
        /\ resp.pid \in DOMAIN products
        /\ \E p \in GetByPrefix(products) : p.id = resp.pid

\* C3: when DELETE /products/{id} returns success, the products record is gone
\* and id is not in the user_products index of the product's seller; a DELETE
\* of an id that has no record returns 404 and writes nothing.
C3_DeleteRemoves ==
    /\ Answered("deleteProduct", 200) =>
           /\ resp.pid \notin DOMAIN products
           /\ ~Contains(GetList(userProducts, resp.prod.sellerId), resp.pid)
    /\ Answered("deleteProduct", 404) =>
           /\ resp.pid \notin DOMAIN products
           /\ ~resp.wrote
\* C4: PUT /products/{id} by an authenticated caller who is not the seller of
\* the product it read and whose user record has a role other than admin
\* returns 403, and the request writes nothing.
C4_UpdateForbidden ==
    \A q \in Requests :
        (/\ q.kind = "updateProduct"
         /\ q.prod # Null
         /\ q.ud # Null
         /\ q.prod.sellerId # q.caller
         /\ q.ud.role # "admin")
        => (q.pc = "done" /\ q.status = 403 /\ ~q.wrote)

\* A non-owner with role user was answered 403 and the record is as it was read.
C4_Witness ==
    /\ Answered("updateProduct", 403)
    /\ resp.ud.role = "user"
    /\ resp.prod.sellerId # resp.caller
    /\ Get(products, resp.pid) = resp.prod

BearerKinds ==
    {"getUser", "createProduct", "updateProduct", "deleteProduct", "createOrder",
     "myOrders", "adminUsers", "adminOrders"}

\* C5: on every bearer-protected endpoint a request with no token, or with a
\* token the provider rejects, is answered 401 in a step that writes no key and
\* starts no handler work; no such request is ever in flight.
C5_Unauthenticated401 ==
    [][/\ \A q \in BagToSet(req') :
              q.kind \in BearerKinds => q.caller \in identities
       /\ (/\ resp' # resp
           /\ resp'.pc = "done"
           /\ resp'.kind \in BearerKinds
           /\ resp'.caller \notin identities)
          => (/\ resp'.status = 401
              /\ ~resp'.wrote
              /\ store' = store
              /\ req' = req)]_vars

\* An unauthenticated purchase was answered 401 while a product is on sale,
\* and there is no order.
C5_Witness ==
    /\ Answered("createOrder", 401)
    /\ resp.caller \notin identities
    /\ \E p \in DOMAIN products : products[p].status = "available"
    /\ orders = <<>>

\* The signup of u has returned success: its three writes are done and it is
\* no longer in flight.
SignedUp(u) ==
    /\ u \in DOMAIN signupRole
    /\ u \in DOMAIN users /\ u \in DOMAIN userProducts /\ u \in DOMAIN userOrders
    /\ \A q \in InFlight : ~(q.kind = "signup" /\ q.caller = u)

\* C6 as stated: after a successful signup, GET /user returns the role the
\* signup request gave, whatever it is, and user when it gave none.
C6_RoleAsRequested ==
    (Answered("getUser", 200) /\ SignedUp(resp.caller)) =>
        resp.body.role = (IF signupRole[resp.caller] = "undef" THEN "user"
                          ELSE signupRole[resp.caller])

\* C6 amended: after a successful signup, GET /user returns role admin when the
\* signup request gave role admin, and role user for every other role value
\* and for none.
C6_RoleNormalised ==
    (Answered("getUser", 200) /\ SignedUp(resp.caller)) =>
        /\ signupRole[resp.caller] = "admin" => resp.body.role = "admin"
        /\ signupRole[resp.caller] # "admin" => resp.body.role = "user"

\* A user who signed up as moderator is told role user.
C6_Witness ==
    /\ Answered("getUser", 200)
    /\ SignedUp(resp.caller)
    /\ signupRole[resp.caller] = "moderator"
    /\ resp.body.role = "user"

\* C7: when no request is in flight and no store operation has failed, every
\* id in a user_products index has a products record, and every products
\* record is listed in the index of its sellerId.
C7_IndexAgrees ==
    (req = EmptyBag /\ failures = 0) =>
        /\ \A u \in DOMAIN userProducts :
               \A i \in 1..Len(userProducts[u]) : userProducts[u][i] \in DOMAIN products
        /\ \A p \in DOMAIN products :
               Contains(GetList(userProducts, products[p].sellerId), p)

\* C8: in every reachable state every order id in a user_orders index has an
\* orders record.
C8_IndexedOrdersExist ==
    \A u \in DOMAIN userOrders :
        \A i \in 1..Len(userOrders[u]) : userOrders[u][i] \in DOMAIN orders

\* Both users signed up in full, and an order is indexed while a request is in
\* flight and after a store operation of another request has failed.
C8_Witness ==
    /\ DOMAIN users = Users
    /\ \E u \in DOMAIN userOrders : userOrders[u] # <<>>
    /\ req # EmptyBag
    /\ failures > 0

\* C9: an orders record, once written, is never changed and never removed.
C9_OrdersImmutable ==
    [][\A o \in DOMAIN orders : o \in DOMAIN orders' /\ orders'[o] = orders[o]]_vars

\* An order outlives its product: the record of the product it snapshots is
\* gone, and the order still has the snapshot and status completed.
C9_Witness ==
    \E o \in DOMAIN orders :
        /\ orders[o].productId \notin DOMAIN products
        /\ orders[o].status = "completed"
        /\ orders[o].price = 2

\* C10: once a buyer's purchase of another user's product has returned
\* success, its order has status completed, every GET /admin/orders answered
\* to an admin includes it, and every GET /orders answered to its seller
\* includes it.
C10_OrderListed ==
    \A o \in okOrders :
        (o \in DOMAIN orders /\ orders[o].buyerId # orders[o].sellerId) =>
        /\ o \in DOMAIN orders
        /\ orders[o].status = "completed"
        /\ Answered("adminOrders", 200) => orders[o] \in resp.body
        /\ (Answered("myOrders", 200) /\ resp.caller = orders[o].sellerId) =>
               \E i \in DOMAIN resp.body : resp.body[i] = orders[o]

AdminKinds == {"adminUsers", "adminOrders"}

\* C11: GET /admin/users and GET /admin/orders answer 200 only to an
\* authenticated caller whose user record has role admin, and then with the
\* full scan of their key space; a caller whose record has any other role is
\* answered 403 with an error body and no listing.
C11_AdminOnly ==
    (resp.pc = "done" /\ resp.kind \in AdminKinds) =>
        LET userData == Get(users, resp.caller)
            scan == GetByPrefix(IF resp.kind = "adminUsers" THEN users ELSE orders)
        IN  /\ resp.status = 200 =>
                /\ Authenticated(resp.caller)
                /\ userData # Null
                /\ userData.role = "admin"
                /\ resp.body = scan
            /\ (resp.ud # Null /\ resp.ud.role # "admin") =>
                /\ resp.status = 403
                /\ resp.body = ErrBody("Admin access required")
            /\ (userData # Null /\ userData.role # "admin") => resp.status # 200

\* A caller with role user is refused the list of orders while an order exists.
C11_Witness ==
    /\ Answered("adminOrders", 403)
    /\ resp.ud.role = "user"
    /\ orders # <<>>

\* The caller of q was the seller of the record q read, or the user record q
\* read has role admin.
OwnerOrAdmin(q) ==
    /\ q.prod # Null
    /\ q.prod.sellerId = q.caller \/ (q.ud # Null /\ q.ud.role = "admin")

\* C12: a products record that exists is overwritten or deleted only by a
\* step of a PUT or DELETE request for its id, and every PUT or DELETE request
\* that has passed its authorization check and is about to write or has
\* written was, on the records it read at the check, the record's sellerId or
\* an admin.
C12_WritesAuthorized ==
    [][/\ \A q \in InFlight :
             (q.pc \in {"up_set_product", "dl_del_product"} \/
              (q.kind \in {"updateProduct", "deleteProduct"} /\ q.wrote)) =>
             OwnerOrAdmin(q)
       /\ \A p \in DOMAIN products :
             (p \notin DOMAIN products' \/ products'[p] # products[p]) =>
             \E q \in InFlight :
                 /\ CopiesIn(q, req') < CopiesIn(q, req)
                 /\ q.pc \in {"up_set_product", "dl_del_product"}
                 /\ q.pid = p
                 /\ OwnerOrAdmin(q)]_vars

\* An admin who is not the seller has deleted the record.
C12_Witness ==
    /\ Answered("deleteProduct", 200)
    /\ resp.wrote
    /\ resp.ud.role = "admin"
    /\ resp.prod.sellerId # resp.caller
    /\ resp.pid \notin DOMAIN products

\* C13: an authenticated POST /orders answered 400 or 404 (no productId, no
\* such product, or a product whose status is not available) is answered
\* before any write: the store is as it was, no order id was drawn, and the
\* request never went on; and every POST /orders that goes on to write has a
\* productId and read a product with status available.
C13_RejectedOrderWritesNothing ==
    [][/\ (/\ resp' # resp
           /\ resp'.pc = "done"
           /\ resp'.kind = "createOrder"
           /\ resp'.status \in {400, 404}) =>
              /\ store' = store
              /\ req' = req
              /\ nextOid' = nextOid
              /\ ~resp'.wrote
              /\ resp'.oid = 0
              /\ resp'.status = 404 => resp'.pid \notin DOMAIN products
       /\ \A q \in BagToSet(req') :
              q.kind = "createOrder" =>
              /\ q.pid # 0
              /\ q.prod # Null
              /\ q.prod.status = "available"]_vars

\* The purchase of a product whose status is sold was refused with 400.
C13_Witness ==
    /\ Answered("createOrder", 400)
    /\ resp.caller \in identities
    /\ resp.prod # Null
    /\ resp.prod.status = "sold"
    /\ Get(products, resp.prod.id) = resp.prod

\* C14: every order record in the store has quantity >= 1, whatever quantity
\* the purchase request carried.
C14_QuantityAtLeastOne ==
    \A o \in DOMAIN orders : orders[o].quantity >= 1

\* The POST /products requests of an authenticated caller whose body has a
\* title, as far as they have got.
TitledCreates ==
    {q \in Requests : /\ q.kind = "createProduct"
                      /\ q.caller \in identities
                      /\ "title" \in DOMAIN q.arg
                      /\ q.arg.title}

ZeroOrNegative(price) == price.t \in {"num", "str"} /\ price.n <= 0

\* C15 as stated: an authenticated POST /products with a title and a price
\* that is zero or negative is not rejected for its price.
C15_ZeroOrNegativeAccepted ==
    \A q \in TitledCreates :
        ZeroOrNegative(q.arg.price) => ~(q.pc = "done" /\ q.status = 400)

\* C15: an authenticated POST /products with a title and a price that is a
\* negative number, or a string that spells zero or a negative number, is not
\* rejected for its price, and its first write stores a product with that
\* price; a price that is the number 0 is rejected 400 like a missing price.
C15_NoPositivityCheck ==
    [][/\ \A q \in TitledCreates :
             /\ (ZeroOrNegative(q.arg.price) /\ q.arg.price # Num(0)) =>
                    /\ ~(q.pc = "done" /\ q.status = 400)
                    /\ q.prod.price = q.arg.price.n
             /\ (q.arg.price = Num(0)) =>
                    /\ q.pc = "done"
                    /\ q.status = 400
                    /\ ~q.wrote
             /\ (q.pc = "cp_set_product" /\ CopiesIn(q, req') < CopiesIn(q, req)
                    /\ ~(resp'.pc = "done" /\ resp' # resp)) =>
                    /\ q.pid \in DOMAIN products'
                    /\ products'[q.pid].price = q.arg.price.n]_vars

\* A product with price 0 and one with a negative price have been stored by
\* requests that gave these prices, the zero as a string.
C15_Witness ==
    /\ Answered("createProduct", 200)
    /\ resp.arg.price = Str(0)
    /\ resp.pid \in DOMAIN products
    /\ products[resp.pid].price = 0
    /\ \E p \in DOMAIN products : products[p].price < 0

\* C16: a step in which a store operation fails, or in which a handler that
\* has authenticated its caller (signup: that has none to authenticate) fails
\* to parse the body, returns that handler's response with status 500 and a
\* body that is {error: message}; the failed operation writes nothing.
C16_FailureIs500 ==
    [][(\/ failures' > failures
        \/ resp' # resp /\ resp'.arg = Malformed) =>
           /\ resp'.pc = "done"
           /\ resp' # resp
           /\ resp'.status = 500
           /\ DOMAIN resp'.body = {"error"}
           /\ resp'.body = ErrBody(CatchMessage(resp'.kind))
           /\ store' = store
           /\ \A q \in BagToSet(req') : q \in InFlight]_vars

\* A store operation has failed, and a PUT whose body is malformed is answered
\* 500 with the record as it was.
C16_Witness ==
    /\ Answered("updateProduct", 500)
    /\ resp.arg = Malformed
    /\ Get(products, resp.pid) = resp.prod
    /\ failures > 0

\* The request q in flight takes a step that is not a failure.
Moves(q) ==
    /\ CopiesIn(q, req') < CopiesIn(q, req)
    /\ ~(resp' # resp /\ resp'.status = 500)

\* C17: every index write of POST /products and POST /orders stores the list
\* the request read earlier with its own id appended, whatever the index holds
\* when the write lands: an id another request appended in between is gone
\* from the index, and both requests go on to return success.
C17_LastWriterWins ==
    [][\A q \in InFlight :
          /\ (q.pc = "cp_set_index" /\ Moves(q)) =>
                 userProducts'[q.caller] = Append(q.list, q.pid)
          /\ (q.pc = "or_set_buyer" /\ Moves(q)) =>
                 userOrders'[q.caller] = Append(q.list, q.oid)
          /\ (q.pc = "or_set_seller" /\ Moves(q)) =>
                 userOrders'[q.prod.sellerId] = Append(q.list, q.oid)]_vars

\* Two purchases by one buyer have both returned success, no store operation
\* failed, and the buyer's index holds the second order and not the first.
C17_Witness ==
    /\ okOrders = {1, 2}
    /\ failures = 0
    /\ req = EmptyBag
    /\ orders[1].buyerId = orders[2].buyerId
    /\ LET index == GetList(userOrders, orders[1].buyerId)
       IN  Contains(index, 2) /\ ~Contains(index, 1)

\* The POST /orders requests that have drawn an order id.
Purchases == {q \in Requests : q.kind = "createOrder" /\ q.oid # 0}

\* C18: no step of a POST /orders request changes the products records; a
\* purchase is turned away as unavailable only when the record says so, and
\* fails with 500 only on a store failure, a malformed body or a buyer
\* without user record, never because of other purchases; and each purchase
\* that got past the checks has an order id of its own, under which the
\* order it returns is stored.
C18_PurchaseLeavesProduct ==
    [][/\ (\/ \E q \in InFlight :
                 q.kind = "createOrder" /\ CopiesIn(q, req') < CopiesIn(q, req)
           \/ \E q \in BagToSet(req') :
                 q.kind = "createOrder" /\ CopiesIn(q, req') > CopiesIn(q, req)
           \/ resp' # resp /\ resp'.kind = "createOrder") =>
              products' = products
       /\ (resp' # resp /\ resp'.kind = "createOrder" /\ resp'.status = 400
              /\ resp'.prod # Null) =>
              Get(products, resp'.prod.id).status # "available"
       /\ (resp' # resp /\ resp'.kind = "createOrder" /\ resp'.status = 500) =>
              \/ failures' > failures
              \/ resp'.arg = Malformed
              \/ Get(users, resp'.caller) = Null
       /\ \A q1, q2 \in Purchases : q1.oid = q2.oid => q1 = q2
       /\ \A q \in Purchases : CopiesIn(q, req) <= 1
       /\ Answered("createOrder", 200) =>
              /\ Get(orders, resp.oid) = resp.body
              /\ resp.body.id = resp.oid
              /\ resp.body.productId = resp.pid]_vars

\* Two concurrent purchases of one product: one has returned success, the
\* other has written its order, and the product is still available.
C18_Witness ==
    /\ Answered("createOrder", 200)
    /\ \E q \in InFlight :
          /\ q.kind = "createOrder"
          /\ q.pid = resp.pid
          /\ q.oid # resp.oid
          /\ q.oid \in DOMAIN orders
          /\ orders[q.oid].productId = orders[resp.oid].productId
    /\ Get(products, resp.pid) # Null
    /\ Get(products, resp.pid).status = "available"

\* C19: a purchase that has passed its availability check goes on when the
\* product record has been deleted in the meantime: its next steps write the
\* order with the deleted product's id and return success, and it fails only
\* on a store failure or a buyer without user record.
C19_OrderAfterDelete ==
    [][\A q \in InFlight :
          (/\ q.kind = "createOrder"
           /\ q.pid \notin DOMAIN products
           /\ CopiesIn(q, req') < CopiesIn(q, req)) =>
              /\ (q.pc = "or_set_order" /\ Moves(q)) =>
                     /\ orders' = Put(orders, q.oid, q.ord)
                     /\ orders'[q.oid].productId = q.pid
                     /\ q.pid \notin DOMAIN products'
              /\ (resp' # resp /\ resp'.pc = "done") =>
                     \/ resp'.status = 200 /\ q.pc = "or_respond"
                     \/ /\ resp'.status = 500
                        /\ failures' > failures \/ Get(users, q.caller) = Null
              /\ q.pc = "or_respond" =>
                     /\ resp'.status = 200
                     /\ resp'.body.productId \notin DOMAIN products'
                     /\ Get(orders, q.oid) = resp'.body]_vars

\* A purchase of a product and its deletion have overlapped and both have
\* returned success with no store failure: the purchase, the last to return,
\* returns an order whose product record does not exist.
C19_Witness ==
    /\ Answered("createOrder", 200)
    /\ req = EmptyBag
    /\ failures = 0
    /\ started = MaxRequests
    /\ resp.pid \notin DOMAIN products
    /\ Get(orders, resp.oid) # Null
    /\ orders[resp.oid].productId = resp.pid
    /\ ~Contains(GetList(userProducts, resp.prod.sellerId), resp.pid)

\* C20: when a store operation of POST /products fails after the product
\* write (the read or the write of the seller's index), the request returns
\* 500 and the step changes nothing in the store: the record written stays,
\* GET /products, which returns every products record, returns it, and its
\* id is in no user_products list.  A products record leaves the store only
\* by the delete step of a DELETE request for its id.
C20_OrphanProduct ==
    [][/\ \A q \in InFlight :
             (/\ q.kind = "createProduct"
              /\ q.pc \in {"cp_get_index", "cp_set_index"}
              /\ CopiesIn(q, req') < CopiesIn(q, req)
              /\ failures' > failures) =>
                 /\ q.wrote
                 /\ resp'.pc = "done"
                 /\ resp'.status = 500
                 /\ resp'.pid = q.pid
                 /\ store' = store
                 /\ \A u \in DOMAIN userProducts' :
                        ~Contains(userProducts'[u], q.pid)
                 /\ q.pid \in DOMAIN products =>
                        products[q.pid] \in GetByPrefix(products')
       /\ \A p \in DOMAIN products :
             p \notin DOMAIN products' =>
                 \E q \in InFlight : /\ q.pc = "dl_del_product"
                                     /\ q.pid = p
                                     /\ CopiesIn(q, req') < CopiesIn(q, req)
       /\ (resp' # resp /\ resp'.kind = "listProducts" /\ resp'.status = 200) =>
             resp'.body = GetByPrefix(products')]_vars

\* The only request that went beyond its first step was a POST /products whose
\* index update failed: GET /products returns a product that is in no
\* user_products list.
C20_Witness ==
    /\ Answered("listProducts", 200)
    /\ req = EmptyBag
    /\ started = 1
    /\ failures = 1
    /\ DOMAIN users = Users
    /\ \E p \in resp.body :
          /\ Get(products, p.id) = p
          /\ \A u \in DOMAIN userProducts : ~Contains(userProducts[u], p.id)

\* C21: when a store operation of DELETE /products/{id} fails after the
\* record was deleted (the read or the write of the seller's index), the
\* request returns 500 and the step changes nothing in the store: the record
\* is gone and every index that listed the id still lists it.  A later DELETE
\* of an id that has no record is answered 404 and changes nothing either.
C21_DanglingIndex ==
    [][/\ \A q \in InFlight :
             (/\ q.kind = "deleteProduct"
              /\ q.pc \in {"dl_get_index", "dl_set_index"}
              /\ CopiesIn(q, req') < CopiesIn(q, req)
              /\ failures' > failures) =>
                 /\ q.wrote
                 /\ resp'.pc = "done"
                 /\ resp'.status = 500
                 /\ resp'.pid = q.pid
                 /\ q.pid \notin DOMAIN products'
                 /\ store' = store
       /\ (/\ resp' # resp
           /\ resp'.kind = "deleteProduct"
           /\ resp'.caller \in identities
           /\ resp'.pid \in PIDs
           /\ resp'.pid \notin DOMAIN products
           /\ req' = req) =>
              /\ resp'.status = 404
              /\ ~resp'.wrote
              /\ store' = store]_vars

\* C22: every record under products:{k} has id = k, before and after every
\* step; and the record a PUT /products/{k} writes has id k, has every field
\* of the record the handler read, and differs from that record only in
\* fields its body gave (an id in the body changes nothing).
C22_IdPreserved ==
    [][/\ \A k \in DOMAIN products : products[k].id = k
       /\ \A k \in DOMAIN products' : products'[k].id = k
       /\ \A q \in InFlight :
             (q.pc = "up_set_product" /\ Moves(q)) =>
                 /\ q.pid \in DOMAIN products'
                 /\ LET new == products'[q.pid] IN
                    /\ new.id = q.pid
                    /\ DOMAIN q.prod \subseteq DOMAIN new
                    /\ \E updates \in UpdateBodies :
                          \A f \in DOMAIN new \ {"id"} :
                              new[f] = IF f \in DOMAIN updates
                                       THEN updates[f] ELSE q.prod[f]]_vars

\* A PUT whose body carried another id, a price and a status has returned
\* success: the record has the new status, its own id and its old sellerId.
C22_Witness ==
    /\ Answered("updateProduct", 200)
    /\ Get(products, resp.pid) = resp.body
    /\ resp.body.status = "sold"
    /\ resp.body.id = resp.pid
    /\ resp.body.sellerId = resp.prod.sellerId
    /\ resp.body.price # resp.prod.price

\* s is an initial segment of t.
IsPrefix(s, t) == Len(s) <= Len(t) /\ SubSeq(t, 1, Len(s)) = s

\* C23: every write to an existing user_orders list stores a list that has
\* the list stored before as a prefix, and every write to an existing
\* user_products list either appends one id to the list stored before or
\* removes from it exactly one id, that of a product with no record.
C23_AppendOnly ==
    [][/\ \A u \in DOMAIN userOrders :
             /\ u \in DOMAIN userOrders'
             /\ IsPrefix(userOrders[u], userOrders'[u])
       /\ \A u \in DOMAIN userProducts :
             /\ u \in DOMAIN userProducts'
             /\ \/ userProducts'[u] = userProducts[u]
                \/ \E id \in PIDs : userProducts'[u] = Append(userProducts[u], id)
                \/ \E id \in PIDs : /\ Contains(userProducts[u], id)
                                     /\ id \notin DOMAIN products'
                                     /\ userProducts'[u] = Without(userProducts[u], id)]_vars

\* The caller u is the buyer or the seller of the order o.
PartyTo(o, u) == o.buyerId = u \/ o.sellerId = u

\* C24: every order id listed in user_orders:{U} is that of a stored order
\* whose buyerId or sellerId is U, and every order GET /orders returns to a
\* caller has the caller as buyer or seller.
C24_OwnOrdersOnly ==
    /\ \A u \in DOMAIN userOrders :
          \A i \in 1..Len(userOrders[u]) :
              /\ userOrders[u][i] \in DOMAIN orders
              /\ PartyTo(orders[userOrders[u][i]], u)
    /\ Answered("myOrders", 200) =>
          \A i \in DOMAIN resp.body :
              /\ resp.body[i] # Null
              /\ PartyTo(resp.body[i], resp.caller)

\* A seller is returned an order of their product bought by someone else,
\* after the product's sellerId was changed to that of another user.
C24_Witness ==
    /\ Answered("myOrders", 200)
    /\ \E i \in DOMAIN resp.body :
          /\ resp.body[i].sellerId = resp.caller
          /\ resp.body[i].buyerId # resp.caller
          /\ Get(products, resp.body[i].productId) # Null
          /\ Get(products, resp.body[i].productId).sellerId # resp.caller

\* C25: a POST /products by an authenticated caller who has no users record
\* is answered at once, with 500 unless its body lacks title or price (400),
\* and writes nothing; no creation in flight is by a caller without user
\* record, and the product write of a creation stores a record whose sellerId
\* is the caller, who has a user record.
C25_SellerHasRecord ==
    [][/\ (/\ resp' # resp
           /\ resp'.kind = "createProduct"
           /\ resp'.caller \in identities
           /\ Get(users, resp'.caller) = Null) =>
              /\ resp'.status \in {400, 500}
              /\ resp'.status = 400 =>
                     ~(resp'.arg.title /\ Truthy(resp'.arg.price))
              /\ ~resp'.wrote
              /\ store' = store
              /\ req' = req
              /\ nextPid' = nextPid
       /\ \A q \in BagToSet(req') :
              q.kind = "createProduct" =>
                 (Get(users', q.caller) # Null /\ q.ud = Get(users', q.caller))
       /\ \A q \in InFlight :
             (q.pc = "cp_set_product" /\ Moves(q)) =>
                 /\ products' = Put(products, q.pid, q.prod)
                 /\ products'[q.pid].sellerId = q.caller
                 /\ Get(users, products'[q.pid].sellerId) # Null]_vars

\* A caller with a token and no user record has sent a valid POST /products
\* and is answered 500; no store operation failed in this run, and the store
\* holds the one product it held.
C25_Witness ==
    /\ Answered("createProduct", 500)
    /\ resp.caller \in identities
    /\ Get(users, resp.caller) = Null
    /\ resp.arg # Malformed
    /\ DOMAIN products = {1}
    /\ nextPid = 2
    /\ \A u \in DOMAIN userProducts : ~Contains(userProducts[u], nextPid)

\* C26: with one request at a time and no store failure, the index write of
\* a DELETE changes only the list of the sellerId of the record it read, and
\* a DELETE goes that far only for an id that has a record; so an id that is
\* listed in a user's index while it has no record, and that no DELETE in
\* flight is about to remove from that index, stays listed in it.
C26_StaleIndexStays ==
    [][/\ \A q \in InFlight :
             (q.pc = "dl_set_index" /\ Moves(q)) =>
                 \A u \in DOMAIN userProducts :
                     u # q.prod.sellerId =>
                         /\ u \in DOMAIN userProducts'
                         /\ userProducts'[u] = userProducts[u]
       /\ \A q \in BagToSet(req') :
             (/\ q.kind = "deleteProduct"
              /\ BagCardinality(req') > BagCardinality(req)) =>
                 /\ q.pid \in DOMAIN products
                 /\ q.prod = products[q.pid]
       /\ \A u \in DOMAIN userProducts : \A id \in PIDs :
             (/\ Contains(userProducts[u], id)
              /\ id \notin DOMAIN products
              /\ ~\E q \in InFlight : /\ q.kind = "deleteProduct"
                                      /\ q.pid = id
                                      /\ q.prod.sellerId = u) =>
                 /\ u \in DOMAIN userProducts'
                 /\ Contains(userProducts'[u], id)
                 /\ id \notin DOMAIN products']_vars

\* A product whose sellerId its seller had changed to another user has been
\* deleted by that user: the record is gone and the first seller's index
\* still lists the id.
C26_Witness ==
    /\ Answered("deleteProduct", 200)
    /\ resp.caller = resp.prod.sellerId
    /\ resp.pid \notin DOMAIN products
    /\ ~Contains(GetList(userProducts, resp.prod.sellerId), resp.pid)
    /\ \E u \in DOMAIN userProducts :
          u # resp.prod.sellerId /\ Contains(userProducts[u], resp.pid)

\* How many times x occurs in the sequence s.
Count(s, x) == Cardinality({i \in DOMAIN s : s[i] = x})

\* C27: when a purchase of a product by its own seller returns success, the
\* order's id is twice in the user_orders list of that user, and a GET /orders
\* by that user returns the order of every such purchase twice.
C27_SelfPurchaseTwice ==
    /\ (Answered("createOrder", 200) /\ resp.caller = resp.prod.sellerId) =>
          Count(GetList(userOrders, resp.caller), resp.oid) = 2
    /\ Answered("myOrders", 200) =>
          \A o \in okOrders :
              (orders[o].buyerId = resp.caller /\ orders[o].sellerId = resp.caller) =>
                  Count(resp.body, orders[o]) = 2

\* The caller has a token and no users record.
NoRecord(c) == c \in identities /\ Get(users, c) = Null

\* C28: a caller with a token and no users record is answered 500 by both
\* admin endpoints, by PUT and DELETE at the authorization check of a product
\* whose sellerId is not the caller, and by POST /orders when it reads the
\* buyer's record after the availability check; none of these requests has
\* written or writes anything.
C28_NoRecordIs500 ==
    [][/\ (/\ resp' # resp
           /\ resp'.pc = "done"
           /\ resp'.kind \in AdminKinds
           /\ NoRecord(resp'.caller)) =>
              resp'.status = 500 /\ store' = store
       /\ \A q \in InFlight :
             (/\ CopiesIn(q, req') < CopiesIn(q, req)
              /\ NoRecord(q.caller)
              /\ \/ q.pc \in {"up_get_user", "dl_get_user"} /\ q.prod.sellerId # q.caller
                 \/ q.pc = "or_get_user") =>
                 /\ resp'.pc = "done"
                 /\ resp'.kind = q.kind
                 /\ resp'.status = 500
                 /\ resp'.body = ErrBody(CatchMessage(q.kind))
                 /\ ~resp'.wrote
                 /\ store' = store]_vars

\* A caller with a token and no users record asked to delete another user's
\* product and is answered 500; the record is as it was.
C28_Witness ==
    /\ Answered("deleteProduct", 500)
    /\ NoRecord(resp.caller)
    /\ resp.prod # Null
    /\ resp.prod.sellerId # resp.caller
    /\ Get(products, resp.pid) = resp.prod
    /\ Contains(GetList(userProducts, resp.prod.sellerId), resp.pid)

\* C29: no user_products list contains a product id twice, and no product id
\* is in the lists of two different users.
C29_IndexedOnce ==
    /\ \A u \in DOMAIN userProducts : \A id \in PIDs :
          Count(userProducts[u], id) <= 1
    /\ \A u, v \in DOMAIN userProducts : \A id \in PIDs :
          (Contains(userProducts[u], id) /\ Contains(userProducts[v], id)) => u = v

\* A PUT has given a product to another user: the record names the new
\* seller, and the id is in the first seller's list only.
C29_Witness ==
    /\ Answered("updateProduct", 200)
    /\ Get(products, resp.pid) = resp.body
    /\ resp.body.sellerId # resp.prod.sellerId
    /\ Count(GetList(userProducts, resp.prod.sellerId), resp.pid) = 1
    /\ ~Contains(GetList(userProducts, resp.body.sellerId), resp.pid)

\* C30: in the client App, under every interleaving of checkSession,
\* handleLoginSuccess, fetchUserData and handleLogout, accessToken is non-null
\* whenever user is non-null, so that a rendered UserDashboard or
\* AdminDashboard never receives a null token.
C30_UserHasToken ==
    /\ user # Null => accessToken # Null
    /\ UserDashboardShown \/ AdminDashboardShown => accessToken # Null
====
